---------------------------- MODULE Spec2Model ----------------------------
(***************************************************************************)
(* Model of src/src/lexer.rs: the pattern table REGEXES, the scanner       *)
(* longest_match and the driver loop of tokenize.                          *)
(*                                                                         *)
(* A source text is a sequence of one-character strings.  Every character  *)
(* of the model is ASCII, so a character index is a byte offset.  Offsets  *)
(* are zero-based as in the code: the character at offset i is s[i + 1].   *)
(*                                                                         *)
(* The regex crate's find_at is modelled by a matcher with the crate's     *)
(* leftmost-first semantics: Ends lists the end offsets of a pattern's     *)
(* matches from one start offset in the order a backtracking matcher       *)
(* would try them, and the match reported is the first of them.            *)
(***************************************************************************)
EXTENDS Integers, Sequences, FiniteSets, TLC

VARIABLES src, ind, out, state, ret

vars == <<src, ind, out, state, ret>>

(***************************************************************************)
(* Characters                                                              *)
(***************************************************************************)
BSL == "\\"
DQ == "\""
SQ == "'"
NL == "\n"
CR == "\r"
TAB == "\t"

Lower ==
  {"a","b","c","d","e","f","g","h","i","j","k","l","m",
   "n","o","p","q","r","s","t","u","v","w","x","y","z"}

Upper ==
  {"A","B","C","D","E","F","G","H","I","J","K","L","M",
   "N","O","P","Q","R","S","T","U","V","W","X","Y","Z"}

Digit == {"0","1","2","3","4","5","6","7","8","9"}

\* \w restricted to ASCII
Word == Lower \cup Upper \cup Digit \cup {"_"}

(***************************************************************************)
(* Regular expressions as syntax trees.                                    *)
(*   set : one character in cs (neg = FALSE) or not in cs (neg = TRUE)     *)
(*   cat : rs[1] rs[2] ... in sequence                                     *)
(*   alt : rs[1] | rs[2] | ..., earlier alternatives preferred             *)
(*   rep : rs[1]*  (greedy = TRUE)  or  rs[1]*?  (greedy = FALSE)          *)
(***************************************************************************)
In(S) == [t |-> "set", neg |-> FALSE, cs |-> S, rs |-> <<>>, greedy |-> TRUE]
NotIn(S) == [t |-> "set", neg |-> TRUE, cs |-> S, rs |-> <<>>, greedy |-> TRUE]
Chr(c) == In({c})
\* . matches any character except \n
Dot == NotIn({NL})
Cat(rs) == [t |-> "cat", neg |-> FALSE, cs |-> {}, rs |-> rs, greedy |-> TRUE]
Alt(rs) == [t |-> "alt", neg |-> FALSE, cs |-> {}, rs |-> rs, greedy |-> TRUE]
Star(r) == [t |-> "rep", neg |-> FALSE, cs |-> {}, rs |-> <<r>>, greedy |-> TRUE]
StarLazy(r) == [t |-> "rep", neg |-> FALSE, cs |-> {}, rs |-> <<r>>, greedy |-> FALSE]
\* r+ is r r*, r+? is r r*?, r? is (r|empty)
Plus(r) == Cat(<<r, Star(r)>>)
PlusLazy(r) == Cat(<<r, StarLazy(r)>>)
Opt(r) == Alt(<<r, Cat(<<>>)>>)
\* a literal string
Str(cs) == Cat([k \in 1..Len(cs) |-> Chr(cs[k])])

\* Below, CHOOSE r \in {F(x) : x \in {e}} : TRUE is F(e), written so that e
\* is evaluated once however often F uses it.

RECURSIVE Ends(_, _, _), CatEnds(_, _, _, _), AltEnds(_, _, _, _),
          RepEnds(_, _, _), Bind(_, _, _, _, _), BindRep(_, _, _, _, _)

\* End offsets of the matches of r in s that start at offset i, most
\* preferred first.
Ends(r, s, i) ==
  CASE r.t = "set" ->
         IF i < Len(s) /\ ((s[i + 1] \in r.cs) # r.neg) THEN <<i + 1>> ELSE <<>>
    [] r.t = "cat" -> CatEnds(r.rs, 1, s, i)
    [] r.t = "alt" -> AltEnds(r.rs, 1, s, i)
    [] r.t = "rep" -> RepEnds(r, s, i)

\* rs[k] rs[k+1] ... from offset i
CatEnds(rs, k, s, i) ==
  IF k > Len(rs) THEN <<i>>
  ELSE CHOOSE r \in {Bind(es, 1, rs, k + 1, s) : es \in {Ends(rs[k], s, i)}} :
         TRUE

\* for each end e of es[j..], in order, the ends of rs[k..] from e
Bind(es, j, rs, k, s) ==
  IF j > Len(es) THEN <<>>
  ELSE CatEnds(rs, k, s, es[j]) \o Bind(es, j + 1, rs, k, s)

AltEnds(rs, k, s, i) ==
  IF k > Len(rs) THEN <<>>
  ELSE Ends(rs[k], s, i) \o AltEnds(rs, k + 1, s, i)

\* greedy: one more iteration is tried before stopping; lazy: stopping first.
\* An iteration that consumes nothing is not repeated.
RepEnds(r, s, i) ==
  LET more == CHOOSE m \in {BindRep(es, 1, r, s, i) :
                              es \in {Ends(r.rs[1], s, i)}} : TRUE
  IN  IF r.greedy THEN more \o <<i>> ELSE <<i>> \o more

BindRep(es, j, r, s, i) ==
  IF j > Len(es) THEN <<>>
  ELSE (IF es[j] = i THEN <<>> ELSE RepEnds(r, s, es[j]))
         \o BindRep(es, j + 1, r, s, i)

(***************************************************************************)
(* Option<T>: None is the empty sequence, Some(x) the one-element one.     *)
(***************************************************************************)
None == <<>>
Some(x) == <<x>>
unwrap(o) == o[1]

(***************************************************************************)
(* The pattern table                                                       *)
(***************************************************************************)
KEYWORDS == << <<"c","h","a","r">>, <<"i","n","t">> >>

\* the keywords joined by "|"
KeyRegex == Alt([k \in 1..Len(KEYWORDS) |-> Str(KEYWORDS[k])])

\* [a-zA-Z_]\w*
VarRegex == Cat(<<In(Lower \cup Upper \cup {"_"}), Star(In(Word))>>)

\* "(\\.|[^\\"])*?"
StrLitRegex ==
  Cat(<<Chr(DQ),
        StarLazy(Alt(<<Cat(<<Chr(BSL), Dot>>), NotIn({BSL, DQ})>>)),
        Chr(DQ)>>)

\* ('[^\']?')  -- inside a class \' is the quote itself
CharLitRegex == Cat(<<Chr(SQ), Opt(NotIn({SQ})), Chr(SQ)>>)

\* ('\\.+?')
EscCharLitRegex == Cat(<<Chr(SQ), Chr(BSL), PlusLazy(Dot), Chr(SQ)>>)

\* \d+
IntLitRegex == Plus(In(Digit))

LitRegex == Alt(<<StrLitRegex, CharLitRegex, EscCharLitRegex, IntLitRegex>>)

\* //.*
LineCmtRegex == Cat(<<Chr("/"), Chr("/"), Star(Dot)>>)

\* \/\*(.|[\r\n])*?\*\/
BlockCmtRegexGreedy ==
  Cat(<<Chr("/"), Chr("*"),
        Star(Alt(<<Dot, In({CR, NL})>>)),
        Chr("*"), Chr("/")>>)

BlockCmtRegex ==
  Cat(<<Chr("/"), Chr("*"),
        StarLazy(Alt(<<Dot, In({CR, NL})>>)),
        Chr("*"), Chr("/")>>)

CmtRegex == Alt(<<LineCmtRegex, BlockCmtRegex>>)

\* " +"
SpcRegexOne == Chr(" ")

SpcRegexStar == Star(Chr(" "))

SpcRegex == Plus(Chr(" "))

REGEXES ==
  << <<Chr("="), "As">>,
     <<Chr("("), "LPar">>,
     <<Chr(")"), "RPar">>,
     <<Chr("{"), "LBrc">>,
     <<Chr("}"), "RBrc">>,
     <<Chr(";"), "SCol">>,
     <<Chr("+"), "Add">>,
     <<Chr("-"), "Sub">>,
     <<Str(<<"+", "+">>), "Inc">>,
     <<Str(<<"-", "-">>), "Dec">>,
     <<KeyRegex, "Key">>,
     <<VarRegex, "Var">>,
     <<LitRegex, "Lit">>,
     <<CmtRegex, "Cmt">>,
     <<SpcRegex, "Spc">>,
     <<Chr(NL), "Nl">>,
     <<Chr(CR), "CR">>,
     <<Chr(TAB), "Tab">> >>

(***************************************************************************)
(* Regex::find_at: the leftmost match that starts at or after ind.         *)
(***************************************************************************)
RECURSIVE find_from(_, _, _)
find_from(rgx, str, j) ==
  IF j > Len(str) THEN None
  ELSE CHOOSE r \in {IF es # <<>> THEN Some([start |-> j, end |-> es[1]])
                      ELSE find_from(rgx, str, j + 1) :
                      es \in {Ends(rgx, str, j)}} : TRUE

find_at(rgx, str, i) == find_from(rgx, str, i)

match_len(m) == m.end - m.start
as_str(str, m) == SubSeq(str, m.start + 1, m.end)

(***************************************************************************)
(* longest_match                                                           *)
(***************************************************************************)
Tok(kind, pos, text) == [kind |-> kind, pos |-> pos, str |-> text]

\* the negation of the test of line 76: the match is kept
StartsAnywhere(m, i) == TRUE

StartsAt(m, i) == m.start = i

\* line 79
ReplacesFirstOnly(max, len) == max = None

ReplacesOnTie(max, len) == max = None \/ len >= unwrap(max)[2]

Replaces(max, len) == max = None \/ len > unwrap(max)[2]

\* lines 72-88: the body of the for loop, for one match of pattern k
body(str, i, tk_k, find, max) ==
  IF find = None THEN max
  ELSE IF ~StartsAt(unwrap(find), i) THEN max
  ELSE IF Replaces(max, match_len(unwrap(find)))
       THEN Some(<<Tok(tk_k, unwrap(find).start, as_str(str, unwrap(find))),
                   match_len(unwrap(find))>>)
       ELSE max

\* the for loop over REGEXES from entry k on
RECURSIVE for_regexes(_, _, _, _)
for_regexes(str, i, k, max) ==
  IF k > Len(REGEXES) THEN max
  ELSE CHOOSE r \in
         {for_regexes(str, i, k + 1, next) :
            next \in {body(str, i, REGEXES[k][2], find, max) :
                        find \in {find_at(REGEXES[k][1], str, i)}}} : TRUE

longest_match(str, i) == for_regexes(str, i, 1, None)

(***************************************************************************)
(* tokenize: one action per way round the loop                             *)
(***************************************************************************)
Ok(v) == <<"Ok", v>>
Err(e) == <<"Err", e>>

AdvanceByOne(i, n) == i + 1

Advance(i, n) == i + n

\* lines 97-99
Finish ==
  /\ state = "Scanning"
  /\ ind = Len(src)
  /\ state' = "Done"
  /\ ret' = Ok(out)
  /\ UNCHANGED <<src, ind, out>>

\* lines 100-103
FailSkip ==
  /\ state = "Scanning"
  /\ ind # Len(src)
  /\ longest_match(src, ind) = None
  /\ ind' = ind + 1
  /\ UNCHANGED <<src, out, state, ret>>

Fail ==
  /\ state = "Scanning"
  /\ ind # Len(src)
  /\ longest_match(src, ind) = None
  /\ state' = "Failed"
  /\ ret' = Err("L + Bozo")
  /\ UNCHANGED <<src, ind, out>>

\* lines 100, 104-106
Step ==
  /\ state = "Scanning"
  /\ ind # Len(src)
  /\ \E find \in {longest_match(src, ind)} :
       /\ find # None
       /\ out' = Append(out, unwrap(find)[1])
       /\ ind' = Advance(ind, unwrap(find)[2])
  /\ UNCHANGED <<src, state, ret>>

(***************************************************************************)
(* Inputs: every string up to a bound over three small alphabets (the      *)
(* operators, keywords and blanks; the quotes and the backslash; the       *)
(* comment delimiters), lexemes separated by runs of spaces, and a few     *)
(* longer texts.                                                           *)
(***************************************************************************)
MaxLen == 3
MaxLitLen == 3
MaxCmtLen == 5
MaxLexemes == 2

Strings(A, n) == UNION {[1..m -> A] : m \in 0..n}

AlphaOps == {"+", "-", "=", "i", " ", "@"}
AlphaLit == {SQ, BSL, DQ, "q", "@"}
AlphaCmt == {"/", "*", NL}

Lexemes == { <<"i","n","t">>, <<"c">>, <<"4","2">>, <<"=">>, <<";">> }

Gaps == { <<" ">>, <<" ", " ">> }

\* the texts of n lexemes with a gap between neighbours
RECURSIVE LexemeTexts(_)
LexemeTexts(n) ==
  IF n = 0 THEN {<<>>}
  ELSE IF n = 1 THEN Lexemes
  ELSE {s \o g \o l : s \in LexemeTexts(n - 1), g \in Gaps, l \in Lexemes}

Examples ==
  { <<"c","h","a","r"," ","c"," ","="," ","3",";">>,
    <<"/","*"," ","a",NL,"b"," ","*","/","x">>,
    <<"i","n","t","e","g","e","r">>,
    <<"c","h","a","r">>,
    <<"c","h","a","r","t">>,
    <<"i","n","t","(",")","{","x","+","+",";","}">>,
    <<"/","/","a","@",CR,NL,"b">>,
    <<"/","*","a","*","/"," ","/","*",CR,"*","/">>,
    <<"x","=","'",BSL,"n","'",";">>,
    <<SQ,NL,SQ>>,
    <<SQ,BSL,"q",SQ>>,
    <<SQ,BSL,SQ,SQ>>,
    <<SQ,BSL,BSL,SQ>>,
    <<"/","*","*","/","*","/">>,
    <<"c","h","a","r"," "," ","x","1"," ","-"," ","7">>,
    <<SQ,BSL,"0",SQ>>,
    <<"+","+">>,
    <<"-","-">>,
    <<"i","n","t">>,
    <<DQ,"a","@",BSL,DQ,"b",DQ,TAB,"#">>,
    <<"a","_","1","-","-","#","b">> }

Inputs ==
  Strings(AlphaOps, MaxLen) \cup Strings(AlphaLit, MaxLitLen)
    \cup Strings(AlphaCmt, MaxCmtLen)
    \cup UNION {LexemeTexts(n) : n \in 0..MaxLexemes}
    \cup Examples

Init ==
  /\ src \in Inputs
  /\ ind = 0
  /\ out = <<>>
  /\ state = "Scanning"
  /\ ret = None

Next == Step \/ Fail \/ Finish

Spec == Init /\ [][Next]_vars

\* tokenize is a plain loop: it keeps running until it returns
LiveSpec == Spec /\ WF_vars(Next)

(***************************************************************************)
(* Auxiliary definitions of the properties                                 *)
(***************************************************************************)
RECURSIVE Flatten(_)
Flatten(toks) ==
  IF toks = <<>> THEN <<>> ELSE Head(toks).str \o Flatten(Tail(toks))

RECURSIVE SumLen(_)
SumLen(toks) ==
  IF toks = <<>> THEN 0 ELSE Len(Head(toks).str) + SumLen(Tail(toks))

Returned == state # "Scanning"
Succeeded == state = "Done"
Tokens == ret[2]

\* A property of src alone is evaluated once per source text, in the state
\* the call starts from.
AtEntry == state = "Scanning" /\ ind = 0 /\ out = <<>>

Offsets == 0..(Len(src) - 1)

\* For each pattern that matches anchored at offset i, the length of its
\* match, read off the matcher directly.
AnchoredLens(s, i) ==
  LET ends == [k \in 1..Len(REGEXES) |-> Ends(REGEXES[k][1], s, i)]
  IN  [k \in {j \in 1..Len(REGEXES) : ends[j] # <<>>} |-> ends[k][1] - i]

Max(S) == CHOOSE n \in S : \A m \in S : m <= n
Min(S) == CHOOSE n \in S : \A m \in S : n <= m

(***************************************************************************)
(* C1  Reconstruction: when tokenize succeeds, the texts of the returned   *)
(* tokens, concatenated in order, are exactly the input; the empty input   *)
(* succeeds with no token.                                                 *)
(***************************************************************************)
C1_Reconstruction ==
  /\ Succeeded => Flatten(Tokens) = src
  /\ (Returned /\ src = <<>>) => ret = Ok(<<>>)

C1_Witness == Succeeded /\ Len(Tokens) >= 3

(***************************************************************************)
(* C2  Position contiguity: the cursor always equals the summed length of  *)
(* the tokens appended so far; the first token is at 0, each token ends    *)
(* where its successor starts, positions strictly increase, and on success *)
(* the last token ends at the length of the source.                        *)
(***************************************************************************)
C2_Contiguity ==
  /\ ind = SumLen(out)
  /\ out # <<>> => out[1].pos = 0
  /\ \A k \in 1..(Len(out) - 1) :
        /\ out[k].pos + Len(out[k].str) = out[k + 1].pos
        /\ out[k].pos < out[k + 1].pos
  /\ (Succeeded /\ Tokens # <<>>) =>
        /\ Tokens = out
        /\ Tokens[Len(Tokens)].pos + Len(Tokens[Len(Tokens)].str) = Len(src)

C2_Witness == Succeeded /\ Len(Tokens) >= 3 /\ Len(Tokens[2].str) >= 2

(***************************************************************************)
(* C3  Longest-match selection: at every offset i of the source,           *)
(* longest_match reports no match exactly when no pattern matches          *)
(* anchored at i (a pattern whose leftmost match starts later does not     *)
(* count), and otherwise returns a token with pos = i, the matched         *)
(* substring as text, and the kind and length of a pattern whose anchored  *)
(* match is as long as any pattern's.  "++" is one Inc token and "--" one  *)
(* Dec token.                                                              *)
(***************************************************************************)
C3_LongestMatch ==
  /\ AtEntry =>
        \A i \in Offsets :
          LET r == longest_match(src, i)
              lens == AnchoredLens(src, i)
          IN  IF DOMAIN lens = {} THEN r = None
              ELSE /\ r # None
                   /\ unwrap(r)[1].pos = i
                   /\ unwrap(r)[1].str = SubSeq(src, i + 1, i + unwrap(r)[2])
                   /\ unwrap(r)[2] = Max({lens[k] : k \in DOMAIN lens})
                   /\ \E k \in DOMAIN lens :
                        /\ REGEXES[k][2] = unwrap(r)[1].kind
                        /\ lens[k] = unwrap(r)[2]
  /\ (Returned /\ src = <<"+", "+">>) => ret = Ok(<<Tok("Inc", 0, src)>>)
  /\ (Returned /\ src = <<"-", "-">>) => ret = Ok(<<Tok("Dec", 0, src)>>)

\* "++=" is lexed as Inc, As although "+" also matches at 0 and "=" has a
\* match further along
C3_Witness ==
  /\ Succeeded
  /\ src = <<"+", "+", "=">>
  /\ Tokens = <<Tok("Inc", 0, <<"+", "+">>), Tok("As", 2, <<"=">>)>>
  /\ find_at(REGEXES[1][1], src, 0) = Some([start |-> 2, end |-> 3])

(***************************************************************************)
(* C4  Tie-break by table order: the token returned at an offset has the   *)
(* kind of the earliest pattern in the table among those whose anchored    *)
(* match is longest.  "int" and "char" are one Key token each; "integer"   *)
(* is one Var token.                                                       *)
(***************************************************************************)
C4_TieBreak ==
  /\ AtEntry =>
        \A i \in Offsets :
          LET r == longest_match(src, i)
              lens == AnchoredLens(src, i)
              longest == {k \in DOMAIN lens :
                            lens[k] = Max({lens[j] : j \in DOMAIN lens})}
          IN  DOMAIN lens # {} =>
                /\ r # None
                /\ unwrap(r)[1].kind = REGEXES[Min(longest)][2]
  /\ (Returned /\ src \in {<<"i","n","t">>, <<"c","h","a","r">>}) =>
        ret = Ok(<<Tok("Key", 0, src)>>)
  /\ (Returned /\ src = <<"i","n","t","e","g","e","r">>) =>
        ret = Ok(<<Tok("Var", 0, src)>>)

\* both the keyword and the identifier pattern match all of "int"
C4_Witness ==
  /\ Succeeded
  /\ src = <<"i","n","t">>
  /\ Tokens = <<Tok("Key", 0, src)>>
  /\ {k \in DOMAIN AnchoredLens(src, 0) : AnchoredLens(src, 0)[k] = 3}
       = {11, 12}

(***************************************************************************)
(* C5  Total failure on unknown character, as stated: every input that     *)
(* contains "@" or "#" anywhere makes tokenize return the failure.         *)
(***************************************************************************)
Unknown == {"@", "#"}

C5_AnyUnknownFails ==
  (Returned /\ \E k \in DOMAIN src : src[k] \in Unknown) =>
    (state = "Failed" /\ ret = Err("L + Bozo"))

(***************************************************************************)
(* C5 amended: whenever the cursor stands on "@" or "#", the call returns  *)
(* the failure at once, with the error message alone.                      *)
(***************************************************************************)
C5_UnknownAtCursorFails ==
  [][(state = "Scanning" /\ ind < Len(src) /\ src[ind + 1] \in Unknown)
       => (state' = "Failed" /\ ret' = Err("L + Bozo"))]_vars

C5_Witness ==
  /\ state = "Failed"
  /\ src[ind + 1] \in Unknown
  /\ out # <<>>
  /\ ret = Err("L + Bozo")

(***************************************************************************)
(* C6  Fail-fast driver: the call returns the failure exactly when the     *)
(* chain of longest-match steps from offset 0 reaches, before the end of   *)
(* the source, an offset at which nothing matches; it fails there, with    *)
(* the error alone, and succeeds only with the cursor at the end of the    *)
(* source; once it has returned nothing changes any more.                  *)
(***************************************************************************)
RECURSIVE Stuck(_, _)
Stuck(s, i) ==
  IF i >= Len(s) THEN FALSE
  ELSE LET f == longest_match(s, i)
       IN  IF f = None THEN TRUE ELSE Stuck(s, i + unwrap(f)[2])

C6_FailFast ==
  /\ [](state = "Scanning" => ret = None)
  /\ [](state = "Failed" =>
          /\ ind < Len(src)
          /\ longest_match(src, ind) = None
          /\ ret = Err("L + Bozo"))
  /\ [](state = "Done" => (ind = Len(src) /\ ret = Ok(out)))
  /\ [](Returned => (state = "Failed" <=> Stuck(src, 0)))
  /\ [][(state = "Scanning" /\ ind < Len(src)
            /\ longest_match(src, ind) = None)
          => (state' = "Failed" /\ ind' = ind /\ out' = out)]_vars
  /\ [][Returned => UNCHANGED vars]_vars

C6_Witness ==
  /\ state = "Failed"
  /\ Len(out) >= 2
  /\ ret = Err("L + Bozo")

(***************************************************************************)
(* C7  End to end: a text made of keywords, identifiers, integer literals  *)
(* and single punctuation characters with runs of spaces between them is   *)
(* lexed into one token per lexeme and one Spc token per run of spaces,    *)
(* in order, each with its kind, offset and text; "char c = 3;" gives the  *)
(* eight tokens of the repository's test.                                  *)
(***************************************************************************)
IsSpace(c) == c = " "

\* the offset at which the run of like characters that covers offset i ends
RECURSIVE RunEnd(_, _, _)
RunEnd(s, i, j) ==
  IF j < Len(s) /\ IsSpace(s[j + 1]) = IsSpace(s[i + 1])
  THEN RunEnd(s, i, j + 1) ELSE j

RECURSIVE Runs(_, _)
Runs(s, i) ==
  IF i >= Len(s) THEN <<>>
  ELSE LET j == RunEnd(s, i, i + 1)
       IN  <<[pos |-> i, str |-> SubSeq(s, i + 1, j)]>> \o Runs(s, j)

Punct == {"=", "(", ")", "{", "}", ";", "+", "-"}

PunctKind(c) ==
  CASE c = "=" -> "As"   [] c = "(" -> "LPar" [] c = ")" -> "RPar"
    [] c = "{" -> "LBrc" [] c = "}" -> "RBrc" [] c = ";" -> "SCol"
    [] c = "+" -> "Add"  [] c = "-" -> "Sub"

LexemeKind(w) ==
  IF \A k \in DOMAIN w : IsSpace(w[k]) THEN "Spc"
  ELSE IF w \in {<<"c","h","a","r">>, <<"i","n","t">>} THEN "Key"
  ELSE IF w[1] \in Lower \cup Upper \cup {"_"}
            /\ \A k \in DOMAIN w : w[k] \in Word THEN "Var"
  ELSE IF \A k \in DOMAIN w : w[k] \in Digit THEN "Lit"
  ELSE IF Len(w) = 1 /\ w[1] \in Punct THEN PunctKind(w[1])
  ELSE "none"

C7_EndToEnd ==
  /\ Returned =>
        LET runs == Runs(src, 0)
        IN  (\A k \in DOMAIN runs : LexemeKind(runs[k].str) # "none") =>
              ret = Ok([k \in DOMAIN runs |->
                         Tok(LexemeKind(runs[k].str), runs[k].pos, runs[k].str)])
  /\ (Returned /\ src = <<"c","h","a","r"," ","c"," ","="," ","3",";">>) =>
        ret = Ok(<<Tok("Key", 0, <<"c","h","a","r">>),
                   Tok("Spc", 4, <<" ">>),
                   Tok("Var", 5, <<"c">>),
                   Tok("Spc", 6, <<" ">>),
                   Tok("As", 7, <<"=">>),
                   Tok("Spc", 8, <<" ">>),
                   Tok("Lit", 9, <<"3">>),
                   Tok("SCol", 10, <<";">>)>>)

C7_Witness ==
  /\ Succeeded
  /\ src = <<"c","h","a","r"," ","c"," ","="," ","3",";">>
  /\ Len(Tokens) = 8

(***************************************************************************)
(* C8  Comment spanning: at an offset where the source has "/*" and a      *)
(* "*/" follows, longest_match returns one Cmt token that runs to the end  *)
(* of the nearest following "*/", newlines and carriage returns included,  *)
(* and the next token starts right after it; a Cmt token that starts with  *)
(* "//" holds no newline.  "/* a\nb */x" is the comment, then Var "x".     *)
(***************************************************************************)
Closers(s, i) ==
  {j \in (i + 2)..(Len(s) - 2) : s[j + 1] = "*" /\ s[j + 2] = "/"}

C8_CommentSpanning ==
  /\ AtEntry =>
        \A i \in Offsets :
          (/\ i + 2 <= Len(src)
           /\ src[i + 1] = "/"
           /\ src[i + 2] = "*"
           /\ Closers(src, i) # {}) =>
            LET e == Min(Closers(src, i)) + 2
            IN  longest_match(src, i) =
                  Some(<<Tok("Cmt", i, SubSeq(src, i + 1, e)), e - i>>)
  /\ \A k \in DOMAIN out :
        out[k].kind = "Cmt" =>
          LET text == out[k].str
              end  == out[k].pos + Len(text)
          IN  /\ text[1] = "/" /\ text[2] \in {"/", "*"}
              /\ text[2] = "/" => \A n \in DOMAIN text : text[n] # NL
              /\ text[2] = "*" =>
                    /\ Closers(src, out[k].pos) # {}
                    /\ end = Min(Closers(src, out[k].pos)) + 2
                    /\ IF k < Len(out) THEN out[k + 1].pos = end ELSE ind = end
  /\ (Returned /\ src = <<"/","*"," ","a",NL,"b"," ","*","/","x">>) =>
        ret = Ok(<<Tok("Cmt", 0, <<"/","*"," ","a",NL,"b"," ","*","/">>),
                   Tok("Var", 9, <<"x">>)>>)

C8_Witness ==
  /\ Succeeded
  /\ src = <<"/","*"," ","a",NL,"b"," ","*","/","x">>
  /\ Tokens[1].kind = "Cmt"
  /\ NL \in {Tokens[1].str[n] : n \in DOMAIN Tokens[1].str}
  /\ Tokens[2] = Tok("Var", 9, <<"x">>)

(***************************************************************************)
(* C9  Termination: every call returns.  No pattern matches the empty      *)
(* string, every token is at least one character long, the cursor never    *)
(* moves backward and moves forward with every token appended, it never    *)
(* passes the end of the source, and at most Len(src) tokens are appended. *)
(***************************************************************************)
C9_Termination ==
  /\ <>Returned
  /\ [](AtEntry =>
          \A i \in 0..Len(src) : \A k \in DOMAIN REGEXES :
            LET ends == Ends(REGEXES[k][1], src, i)
            IN  \A n \in DOMAIN ends : ends[n] > i)
  /\ [](/\ ind <= Len(src)
        /\ Len(out) <= Len(src)
        /\ \A k \in DOMAIN out : Len(out[k].str) >= 1)
  /\ [][ind' >= ind /\ (out' # out => ind' > ind)]_vars

\* a call that went round the loop once per character
C9_Witness ==
  /\ Succeeded
  /\ Len(src) >= 4
  /\ Len(Tokens) = Len(src)

(***************************************************************************)
(* C10  Char-literal forms: a text that is just '', or one character other *)
(* than the quote between quotes, or a backslash and one character between *)
(* quotes, is lexed into one Lit token holding all of it.                  *)
(***************************************************************************)
IsCharLiteral(s) ==
  \/ s = <<SQ, SQ>>
  \/ Len(s) = 3 /\ s[1] = SQ /\ s[2] # SQ /\ s[3] = SQ
  \/ Len(s) = 4 /\ s[1] = SQ /\ s[2] = BSL /\ s[4] = SQ

C10_CharLiteralForms ==
  (Returned /\ IsCharLiteral(src)) => ret = Ok(<<Tok("Lit", 0, src)>>)

=============================================================================
